---- MODULE Spec2Model ----
(***************************************************************************)
(* Model of pkg/plugins/repo/service.go: the plugin repository Manager.    *)
(* Strings the code inspects character by character (version strings) are  *)
(* sequences of one-character strings; strings it only passes around       *)
(* (plugin ids, arch keys, checksums, base URLs) are atoms.                *)
(***************************************************************************)
EXTENDS Naturals, Sequences, FiniteSets

VARIABLES baseURL, pc, op, args, plugin, sel, dlOpts, requests, log, ret,
          nIn, nOnce, nTwice

vars == <<baseURL, pc, op, args, plugin, sel, dlOpts, requests, log, ret,
          nIn, nOnce, nTwice>>

managerVars == <<baseURL, op, args, plugin, sel, dlOpts, requests, log, ret>>
normVars == <<nIn, nOnce, nTwice>>

(***************************************************************************)
(* Bounds of the model.                                                    *)
(***************************************************************************)
\* longest release list a metadata response carries
MaxVersions == 2
\* longest version string handed to normalizeVersion on its own
MaxLen == 3

SeqUpTo(S, n) == UNION {[1..k -> S] : k \in 0..n}

(***************************************************************************)
(* Input alphabets.                                                        *)
(***************************************************************************)
Alphabet == {" ", "v", "^", "1", "2"}
\* version strings the catalog entries carry
CatalogVersions == {<<"1">>, <<"2">>}
\* requested versions: "", "v", "1", "^ 2", "1 1"
ReqVersions == {<<>>, <<"v">>, <<"1">>, <<"^", " ", "2">>, <<"1", " ", "1">>}
TargetArchs == {"linux_amd64", "darwin_arm64"}
ArchKeys == {"linux_amd64", "any"}
BaseURLs == {"https://grafana.com/api/plugins", ":"}
ZipURLs == {"https://example.org/a.zip", "https://example.org/b.zip"}
PluginIDs == {"foo"}

\* checksum the catalog publishes under an arch key
ShaOf(k) == IF k = "any" THEN "sha2" ELSE "sha1"

\* a Go map[string]ArchMeta: nil, or a (possibly empty) finite map
NilArch == [isNil |-> TRUE, m |-> [k \in {} |-> [SHA256 |-> ""]]]
ArchMaps == {NilArch} \cup
            {[isNil |-> FALSE, m |-> [k \in D |-> [SHA256 |-> ShaOf(k)]]] :
               D \in SUBSET ArchKeys}

VersionRecs == [Version : CatalogVersions, Arch : ArchMaps, AngularDetected : BOOLEAN]
ZeroVersion == [Version |-> <<>>, Arch |-> NilArch, AngularDetected |-> FALSE]
Plugins == {[ID |-> id, Versions |-> vs] :
              id \in PluginIDs, vs \in SeqUpTo(VersionRecs, MaxVersions)}
ZeroPlugin == [ID |-> "", Versions |-> <<>>]
CompatOptsSet == [osAndArch : TargetArchs, AngularSupportEnabled : BOOLEAN]

\* CompatOpts.OSAndArch(): the key of the requesting system
OSAndArch(compatOpts) == compatOpts.osAndArch
\* CompatOpts.Readable(): the description of the system put in errors
Readable(compatOpts) == <<"system", compatOpts.osAndArch>>

(***************************************************************************)
(* normalizeVersion                                                        *)
(***************************************************************************)
NotSpace(c) == c # " "
\* strings.ReplaceAll(version, " ", "")
ReplaceAllSpaces(s) == SelectSeq(s, NotSpace)
\* strings.HasPrefix(s, p) for a one-character p
HasPrefix(s, p) == Len(s) >= 1 /\ s[1] = p

normalizeVersion_KeepCaret(version) ==
  LET normalized == ReplaceAllSpaces(version)
  IN  IF HasPrefix(normalized, "v") THEN Tail(normalized) ELSE normalized

normalizeVersion(version) ==
  LET normalized == ReplaceAllSpaces(version)
  IN  IF HasPrefix(normalized, "^") \/ HasPrefix(normalized, "v")
      THEN Tail(normalized)
      ELSE normalized

(***************************************************************************)
(* Compatibility policy                                                    *)
(***************************************************************************)
supportsCurrentArch_NoWildcard(version, compatOpts) ==
  IF version.Arch.isNil THEN TRUE
  ELSE \E arch \in DOMAIN version.Arch.m : arch = OSAndArch(compatOpts)

supportsCurrentArch(version, compatOpts) ==
  IF version.Arch.isNil THEN TRUE
  ELSE \E arch \in DOMAIN version.Arch.m :
         arch = OSAndArch(compatOpts) \/ arch = "any"

isVersionCompatible(version, compatOpts) ==
  IF ~supportsCurrentArch(version, compatOpts) THEN FALSE
  ELSE IF ~compatOpts.AngularSupportEnabled /\ version.AngularDetected THEN FALSE
  ELSE TRUE

(***************************************************************************)
(* selectVersion                                                           *)
(***************************************************************************)
\* the loop of latestSupportedVersion, from index i on: nil is <<>>
RECURSIVE latestFrom(_, _, _)
latestFrom(versions, compatOpts, i) ==
  IF i > Len(versions) THEN <<>>
  ELSE IF ~isVersionCompatible(versions[i], compatOpts)
       THEN latestFrom(versions, compatOpts, i + 1)
       ELSE <<versions[i]>>

RECURSIVE lastFrom(_, _, _)
lastFrom(versions, compatOpts, i) ==
  IF i < 1 THEN <<>>
  ELSE IF ~isVersionCompatible(versions[i], compatOpts)
       THEN lastFrom(versions, compatOpts, i - 1)
       ELSE <<versions[i]>>

latestSupportedVersion_Oldest(p, compatOpts) ==
  lastFrom(p.Versions, compatOpts, Len(p.Versions))

latestSupportedVersion(p, compatOpts) == latestFrom(p.Versions, compatOpts, 1)

\* the exact-version loop of selectVersion: ver stays the zero Version
\* when no entry carries the version string
RECURSIVE exactFrom(_, _, _)
exactFrom(versions, version, i) ==
  IF i > Len(versions) THEN ZeroVersion
  ELSE IF versions[i].Version = version THEN versions[i]
       ELSE exactFrom(versions, version, i + 1)

RECURSIVE exactLastFrom(_, _, _)
exactLastFrom(versions, version, i) ==
  IF i < 1 THEN ZeroVersion
  ELSE IF versions[i].Version = version THEN versions[i]
       ELSE exactLastFrom(versions, version, i - 1)

exactVersion_NoBreak(p, version) ==
  exactLastFrom(p.Versions, version, Len(p.Versions))

exactVersion(p, version) == exactFrom(p.Versions, version, 1)

ErrSupportedVersionNotFound(p, compatOpts) ==
  [kind |-> "ErrSupportedVersionNotFound", PluginID |-> p.ID,
   SystemInfo |-> Readable(compatOpts)]

ErrVersionNotFound(p, version, compatOpts) ==
  [kind |-> "ErrVersionNotFound", PluginID |-> p.ID,
   RequestedVersion |-> version, SystemInfo |-> Readable(compatOpts)]

ErrVersionUnsupported(p, version, compatOpts) ==
  [kind |-> "ErrVersionUnsupported", PluginID |-> p.ID,
   RequestedVersion |-> version, SystemInfo |-> Readable(compatOpts)]

\* m.log.Debugf of the two failure branches
DebugNotFound(p, version, latestSupported) ==
  [msg |-> "not found but potential fallback version was found",
   PluginID |-> p.ID, version |-> version, fallback |-> latestSupported.Version]

DebugUnsupported(p, version, latestSupported) ==
  [msg |-> "not supported but potential fallback version was found",
   PluginID |-> p.ID, version |-> version, fallback |-> latestSupported.Version]

\* variants of selectVersion with one slip each
selectVersion_NoCompatCheck(p, requested, compatOpts) ==
  LET version == normalizeVersion(requested)
      latestSupported == latestSupportedVersion(p, compatOpts)
      ver == exactVersion(p, version)
      notFound == [ver |-> <<>>,
                   err |-> <<ErrVersionNotFound(p, version, compatOpts)>>,
                   log |-> <<DebugNotFound(p, version, latestSupported[1])>>]
      unsupported == [ver |-> <<>>,
                      err |-> <<ErrVersionUnsupported(p, version, compatOpts)>>,
                      log |-> <<DebugUnsupported(p, version, latestSupported[1])>>]
  IN  IF latestSupported = <<>>
      THEN [ver |-> <<>>, err |-> <<ErrSupportedVersionNotFound(p, compatOpts)>>,
            log |-> <<>>]
      ELSE IF version = <<>>
      THEN [ver |-> latestSupported, err |-> <<>>, log |-> <<>>]
      ELSE IF Len(ver.Version) = 0
      THEN notFound
      ELSE IF FALSE
      THEN unsupported
      ELSE [ver |-> <<ver>>, err |-> <<>>, log |-> <<>>]

selectVersion_SwappedErrors(p, requested, compatOpts) ==
  LET version == normalizeVersion(requested)
      latestSupported == latestSupportedVersion(p, compatOpts)
      ver == exactVersion(p, version)
      notFound == [ver |-> <<>>,
                   err |-> <<ErrVersionNotFound(p, version, compatOpts)>>,
                   log |-> <<DebugNotFound(p, version, latestSupported[1])>>]
      unsupported == [ver |-> <<>>,
                      err |-> <<ErrVersionUnsupported(p, version, compatOpts)>>,
                      log |-> <<DebugUnsupported(p, version, latestSupported[1])>>]
  IN  IF latestSupported = <<>>
      THEN [ver |-> <<>>, err |-> <<ErrSupportedVersionNotFound(p, compatOpts)>>,
            log |-> <<>>]
      ELSE IF version = <<>>
      THEN [ver |-> latestSupported, err |-> <<>>, log |-> <<>>]
      ELSE IF Len(ver.Version) = 0
      THEN unsupported
      ELSE IF ~isVersionCompatible(ver, compatOpts)
      THEN notFound
      ELSE [ver |-> <<ver>>, err |-> <<>>, log |-> <<>>]

selectVersion_RawVersionInError(p, requested, compatOpts) ==
  LET version == normalizeVersion(requested)
      latestSupported == latestSupportedVersion(p, compatOpts)
      ver == exactVersion(p, version)
      notFound == [ver |-> <<>>,
                   err |-> <<ErrVersionNotFound(p, requested, compatOpts)>>,
                   log |-> <<DebugNotFound(p, version, latestSupported[1])>>]
      unsupported == [ver |-> <<>>,
                      err |-> <<ErrVersionUnsupported(p, requested, compatOpts)>>,
                      log |-> <<DebugUnsupported(p, version, latestSupported[1])>>]
  IN  IF latestSupported = <<>>
      THEN [ver |-> <<>>, err |-> <<ErrSupportedVersionNotFound(p, compatOpts)>>,
            log |-> <<>>]
      ELSE IF version = <<>>
      THEN [ver |-> latestSupported, err |-> <<>>, log |-> <<>>]
      ELSE IF Len(ver.Version) = 0
      THEN notFound
      ELSE IF ~isVersionCompatible(ver, compatOpts)
      THEN unsupported
      ELSE [ver |-> <<ver>>, err |-> <<>>, log |-> <<>>]

selectVersion_LookupFirst(p, requested, compatOpts) ==
  LET version == normalizeVersion(requested)
      latestSupported == latestSupportedVersion(p, compatOpts)
      ver == exactVersion(p, version)
  IN  IF version # <<>> /\ Len(ver.Version) = 0
      THEN [ver |-> <<>>, err |-> <<ErrVersionNotFound(p, version, compatOpts)>>,
            log |-> <<>>]
      ELSE IF version # <<>> /\ ~isVersionCompatible(ver, compatOpts)
      THEN [ver |-> <<>>, err |-> <<ErrVersionUnsupported(p, version, compatOpts)>>,
            log |-> <<>>]
      ELSE IF latestSupported = <<>>
      THEN [ver |-> <<>>, err |-> <<ErrSupportedVersionNotFound(p, compatOpts)>>,
            log |-> <<>>]
      ELSE IF version = <<>>
      THEN [ver |-> latestSupported, err |-> <<>>, log |-> <<>>]
      ELSE [ver |-> <<ver>>, err |-> <<>>, log |-> <<>>]

\* selectVersion: the result is (ver, err) as one-or-zero element sequences
\* (nil is <<>>), with the debug lines the call wrote
selectVersion(p, requested, compatOpts) ==
  LET version == normalizeVersion(requested)
      latestSupported == latestSupportedVersion(p, compatOpts)
      ver == exactVersion(p, version)
      notFound == [ver |-> <<>>,
                   err |-> <<ErrVersionNotFound(p, version, compatOpts)>>,
                   log |-> <<DebugNotFound(p, version, latestSupported[1])>>]
      unsupported == [ver |-> <<>>,
                      err |-> <<ErrVersionUnsupported(p, version, compatOpts)>>,
                      log |-> <<DebugUnsupported(p, version, latestSupported[1])>>]
  IN  IF latestSupported = <<>>
      THEN [ver |-> <<>>, err |-> <<ErrSupportedVersionNotFound(p, compatOpts)>>,
            log |-> <<>>]
      ELSE IF version = <<>>
      THEN [ver |-> latestSupported, err |-> <<>>, log |-> <<>>]
      ELSE IF Len(ver.Version) = 0
      THEN notFound
      ELSE IF ~isVersionCompatible(ver, compatOpts)
      THEN unsupported
      ELSE [ver |-> <<ver>>, err |-> <<>>, log |-> <<>>]


(***************************************************************************)
(* Download plan                                                           *)
(***************************************************************************)
resolveChecksum_AnyFirst(v, compatOpts) ==
  IF ~v.Arch.isNil
  THEN IF "any" \in DOMAIN v.Arch.m THEN v.Arch.m["any"].SHA256
       ELSE IF OSAndArch(compatOpts) \in DOMAIN v.Arch.m
            THEN v.Arch.m[OSAndArch(compatOpts)].SHA256
            ELSE ""
  ELSE ""

\* the checksum lookup of GetPluginDownloadOptions: a missing "any" entry
\* reads as the zero ArchMeta
resolveChecksum(v, compatOpts) ==
  IF ~v.Arch.isNil
  THEN LET exists == OSAndArch(compatOpts) \in DOMAIN v.Arch.m
           archMeta == IF exists THEN v.Arch.m[OSAndArch(compatOpts)]
                       ELSE IF "any" \in DOMAIN v.Arch.m THEN v.Arch.m["any"]
                       ELSE [SHA256 |-> ""]
       IN  archMeta.SHA256
  ELSE ""

\* fmt.Sprintf("%s/%s/versions/%s/download", ...): the parts, in order
PluginZipURL(base, pluginID, version) ==
  <<base, pluginID, "versions", version, "download">>

PluginDownloadOptions(base, pluginID, v, compatOpts) ==
  [Version |-> v.Version,
   Checksum |-> resolveChecksum(v, compatOpts),
   PluginZipURL |-> PluginZipURL(base, pluginID, v.Version)]

(***************************************************************************)
(* Requests to the client and what it answers                              *)
(***************************************************************************)
\* url.Parse(m.baseURL)
ParseOK(base) == base # ":"

metadataRequest(base, pluginID, compatOpts) ==
  [kind |-> "sendReq", url |-> <<base, "repo", pluginID>>, checksum |-> "",
   compatOpts |-> compatOpts]

archiveRequest_NoChecksum(opts, compatOpts) ==
  [kind |-> "download", url |-> opts.PluginZipURL, checksum |-> "",
   compatOpts |-> compatOpts]

\* the download GetPluginArchive asks for
archiveRequest(opts, compatOpts) ==
  [kind |-> "download", url |-> opts.PluginZipURL, checksum |-> opts.Checksum,
   compatOpts |-> compatOpts]

byURLRequest_WithChecksum(pluginZipURL, compatOpts) ==
  [kind |-> "download", url |-> pluginZipURL, checksum |-> "sha1",
   compatOpts |-> compatOpts]

\* the download GetPluginArchiveByURL asks for
byURLRequest(pluginZipURL, compatOpts) ==
  [kind |-> "download", url |-> pluginZipURL, checksum |-> "",
   compatOpts |-> compatOpts]

\* response bodies of the catalog
Bodies == {<<"garbage">>} \cup {<<"json", p>> : p \in Plugins}

\* json.Unmarshal(body, &data)
Unmarshal(body) ==
  IF body[1] = "json" THEN [data |-> body[2], err |-> <<>>]
  ELSE [data |-> ZeroPlugin, err |-> <<[kind |-> "json.SyntaxError"]>>]

\* what client.download may answer to a request
DownloadOutcomes(req) ==
  {[val |-> <<[archive |-> req.url]>>, err |-> <<>>],
   [val |-> <<>>, err |-> <<[kind |-> "ErrDownload"]>>]}
  \cup (IF req.checksum # ""
        THEN {[val |-> <<>>, err |-> <<[kind |-> "ErrChecksumMismatch"]>>]}
        ELSE {})

NoArgs == [pluginID |-> "", version |-> <<>>,
           compatOpts |-> [osAndArch |-> "", AngularSupportEnabled |-> FALSE],
           pluginZipURL |-> <<>>]

(***************************************************************************)
(* The Manager's operations                                                *)
(***************************************************************************)
Init ==
  /\ baseURL \in BaseURLs
  /\ pc = "idle"
  /\ op = "none"
  /\ args = NoArgs
  /\ plugin = <<>>
  /\ sel = <<>>
  /\ dlOpts = <<>>
  /\ requests = <<>>
  /\ log = <<>>
  /\ ret = <<>>
  /\ nIn = <<>>
  /\ nOnce = <<>>
  /\ nTwice = <<>>

pluginMetadataSend_Twice(pluginID, compatOpts) ==
  /\ log' = Append(log, [msg |-> "Fetching metadata", PluginID |-> pluginID,
                         repo |-> baseURL])
  /\ IF ~ParseOK(baseURL)
     THEN /\ ret' = [val |-> <<>>, err |-> <<[kind |-> "url.Error"]>>]
          /\ pc' = "done"
          /\ requests' = requests
     ELSE /\ requests' = requests \o
                           <<metadataRequest(baseURL, pluginID, compatOpts),
                             metadataRequest(baseURL, pluginID, compatOpts)>>
          /\ pc' = "sendReq"
          /\ ret' = ret

\* pluginMetadata up to m.client.sendReq
pluginMetadataSend(pluginID, compatOpts) ==
  /\ log' = Append(log, [msg |-> "Fetching metadata", PluginID |-> pluginID,
                         repo |-> baseURL])
  /\ IF ~ParseOK(baseURL)
     THEN /\ ret' = [val |-> <<>>, err |-> <<[kind |-> "url.Error"]>>]
          /\ pc' = "done"
          /\ requests' = requests
     ELSE /\ requests' = Append(requests, metadataRequest(baseURL, pluginID, compatOpts))
          /\ pc' = "sendReq"
          /\ ret' = ret

GetPluginArchive ==
  /\ pc = "idle"
  /\ \E pluginID \in PluginIDs, version \in ReqVersions, compatOpts \in CompatOptsSet :
       /\ op' = "GetPluginArchive"
       /\ args' = [pluginID |-> pluginID, version |-> version,
                   compatOpts |-> compatOpts, pluginZipURL |-> <<>>]
       /\ pluginMetadataSend(pluginID, compatOpts)
  /\ UNCHANGED <<baseURL, plugin, sel, dlOpts, nIn, nOnce, nTwice>>

GetPluginDownloadOptions ==
  /\ pc = "idle"
  /\ \E pluginID \in PluginIDs, version \in ReqVersions, compatOpts \in CompatOptsSet :
       /\ op' = "GetPluginDownloadOptions"
       /\ args' = [pluginID |-> pluginID, version |-> version,
                   compatOpts |-> compatOpts, pluginZipURL |-> <<>>]
       /\ pluginMetadataSend(pluginID, compatOpts)
  /\ UNCHANGED <<baseURL, plugin, sel, dlOpts, nIn, nOnce, nTwice>>

GetPluginArchiveByURL ==
  /\ pc = "idle"
  /\ \E pluginZipURL \in ZipURLs, compatOpts \in CompatOptsSet :
       /\ op' = "GetPluginArchiveByURL"
       /\ args' = [pluginID |-> "", version |-> <<>>,
                   compatOpts |-> compatOpts, pluginZipURL |-> <<pluginZipURL>>]
       /\ requests' = Append(requests, byURLRequest(<<pluginZipURL>>, compatOpts))
  /\ pc' = "download"
  /\ UNCHANGED <<baseURL, plugin, sel, dlOpts, log, ret, nIn, nOnce, nTwice>>

\* m.client.sendReq fails: pluginMetadata, GetPluginDownloadOptions and
\* GetPluginArchive each return the error
sendReqError ==
  /\ pc = "sendReq"
  /\ ret' = [val |-> <<>>, err |-> <<[kind |-> "ErrSendReq"]>>]
  /\ pc' = "done"
  /\ UNCHANGED <<baseURL, op, args, plugin, sel, dlOpts, requests, log,
                 nIn, nOnce, nTwice>>

\* m.client.sendReq answers body: the rest of pluginMetadata and of
\* GetPluginDownloadOptions, and GetPluginArchive up to m.client.download
sendReqBody ==
  /\ pc = "sendReq"
  /\ \E body \in Bodies :
       LET md == Unmarshal(body)
           s == selectVersion(md.data, args.version, args.compatOpts)
           opts == PluginDownloadOptions(baseURL, args.pluginID, s.ver[1],
                                         args.compatOpts)
       IN  IF md.err # <<>>
           THEN /\ log' = Append(log, [msg |-> "Failed to unmarshal plugin repo response error"])
                /\ ret' = [val |-> <<>>, err |-> md.err]
                /\ pc' = "done"
                /\ UNCHANGED <<plugin, sel, dlOpts, requests>>
           ELSE /\ plugin' = <<md.data>>
                /\ sel' = <<s>>
                /\ log' = log \o s.log
                /\ IF s.err # <<>>
                   THEN /\ ret' = [val |-> <<>>, err |-> s.err]
                        /\ pc' = "done"
                        /\ UNCHANGED <<dlOpts, requests>>
                   ELSE /\ dlOpts' = <<opts>>
                        /\ IF op = "GetPluginDownloadOptions"
                           THEN /\ ret' = [val |-> <<opts>>, err |-> <<>>]
                                /\ pc' = "done"
                                /\ requests' = requests
                           ELSE /\ requests' = Append(requests,
                                                  archiveRequest(opts, args.compatOpts))
                                /\ pc' = "download"
                                /\ ret' = ret
  /\ UNCHANGED <<baseURL, op, args, nIn, nOnce, nTwice>>

\* m.client.download answers: GetPluginArchive and GetPluginArchiveByURL
\* return what it returned
downloadReturn ==
  /\ pc = "download"
  /\ \E outcome \in DownloadOutcomes(requests[Len(requests)]) : ret' = outcome
  /\ pc' = "done"
  /\ UNCHANGED <<baseURL, op, args, plugin, sel, dlOpts, requests, log,
                 nIn, nOnce, nTwice>>

Next ==
  \/ GetPluginArchive
  \/ GetPluginDownloadOptions
  \/ GetPluginArchiveByURL
  \/ sendReqError
  \/ sendReqBody
  \/ downloadReturn

Spec == Init /\ [][Next]_vars

(***************************************************************************)
(* normalizeVersion on its own, applied once and then to its own result    *)
(***************************************************************************)
InitNorm ==
  /\ baseURL = "https://grafana.com/api/plugins"
  /\ pc = "norm"
  /\ op = "none"
  /\ args = NoArgs
  /\ plugin = <<>>
  /\ sel = <<>>
  /\ dlOpts = <<>>
  /\ requests = <<>>
  /\ log = <<>>
  /\ ret = <<>>
  /\ nIn \in SeqUpTo(Alphabet, MaxLen)
  /\ nOnce = <<>>
  /\ nTwice = <<>>

NormalizeOnce ==
  /\ pc = "norm"
  /\ nOnce = <<>>
  /\ nOnce' = <<normalizeVersion(nIn)>>
  /\ UNCHANGED <<pc, nIn, nTwice, managerVars>>

NormalizeAgain ==
  /\ pc = "norm"
  /\ nOnce # <<>>
  /\ nTwice = <<>>
  /\ nTwice' = <<normalizeVersion(nOnce[1])>>
  /\ UNCHANGED <<pc, nIn, nOnce, managerVars>>

NextNorm == NormalizeOnce \/ NormalizeAgain

SpecNorm == InitNorm /\ [][NextNorm]_vars

(***************************************************************************)
(* Vocabulary of the properties                                            *)
(***************************************************************************)
\* selectVersion has run in this call: on TheCatalog, Requested, Constraints
Selected == sel # <<>>
TheCatalog == plugin[1].Versions
Requested == args.version
Constraints == args.compatOpts
Outcome == sel[1]
Succeeded == Selected /\ Outcome.err = <<>> /\ Outcome.ver # <<>>
FailedWith(kind) == Selected /\ Outcome.err # <<>> /\ Outcome.err[1].kind = kind

Min(S) == CHOOSE x \in S : \A y \in S : x <= y
CompatibleAt == {i \in 1..Len(TheCatalog) : isVersionCompatible(TheCatalog[i], Constraints)}
CarryingAt(version) == {i \in 1..Len(TheCatalog) : TheCatalog[i].Version = version}

\* C1: every release selectVersion returns, on the latest path or on the
\* exact-version path, passes isVersionCompatible for the call's constraints.
C1_SelectedIsCompatible ==
  Succeeded => isVersionCompatible(Outcome.ver[1], Constraints)

\* C1 witness: an exact version was returned from a catalog that also lists
\* an incompatible release.
C1_Witness ==
  /\ Succeeded
  /\ normalizeVersion(Requested) # <<>>
  /\ CompatibleAt # 1..Len(TheCatalog)

\* the policy as section 4.1 words it: only a NON-EMPTY map can mismatch
ArchMismatchNonEmpty(r, c) ==
  /\ ~r.Arch.isNil
  /\ DOMAIN r.Arch.m # {}
  /\ c.osAndArch \notin DOMAIN r.Arch.m
  /\ "any" \notin DOMAIN r.Arch.m
\* the policy the code applies: any declared (non-nil) map can mismatch
ArchMismatchDeclared(r, c) ==
  /\ ~r.Arch.isNil
  /\ c.osAndArch \notin DOMAIN r.Arch.m
  /\ "any" \notin DOMAIN r.Arch.m
AngularRefused(r, c) == ~c.AngularSupportEnabled /\ r.AngularDetected

\* C2 as claimed: isVersionCompatible is false exactly when a non-empty
\* architecture map has neither the arch key nor "any", or angular support is
\* off and the release is angular-detected; true otherwise, also for a
\* present but empty map.
C2_Original_EmptyMapCompatible ==
  plugin # <<>> =>
    \A i \in 1..Len(TheCatalog) :
      isVersionCompatible(TheCatalog[i], Constraints)
        <=> ~(ArchMismatchNonEmpty(TheCatalog[i], Constraints)
              \/ AngularRefused(TheCatalog[i], Constraints))

\* C2 amended: isVersionCompatible is false exactly when a non-nil
\* architecture map (empty or not) has neither the arch key nor "any", or
\* angular support is off and the release is angular-detected; true
\* otherwise, in particular for a nil map.
C2_CompatibilityPolicy ==
  plugin # <<>> =>
    \A i \in 1..Len(TheCatalog) :
      isVersionCompatible(TheCatalog[i], Constraints)
        <=> ~(ArchMismatchDeclared(TheCatalog[i], Constraints)
              \/ AngularRefused(TheCatalog[i], Constraints))

\* C2 witness: the only release declares an empty map and is not refused for
\* angular, and the selection found no supported version.
C2_Witness ==
  /\ FailedWith("ErrSupportedVersionNotFound")
  /\ Len(TheCatalog) = 1
  /\ ~TheCatalog[1].Arch.isNil
  /\ DOMAIN TheCatalog[1].Arch.m = {}
  /\ ~AngularRefused(TheCatalog[1], Constraints)

\* C3: when the requested version normalizes to "" and some release is
\* compatible, selectVersion succeeds with the compatible release of
\* smallest index in the catalog as received.
C3_LatestIsFirstCompatible ==
  (Selected /\ normalizeVersion(Requested) = <<>> /\ CompatibleAt # {})
    => /\ Succeeded
       /\ Outcome.ver[1] = TheCatalog[Min(CompatibleAt)]

\* C3 witness: "v" was requested, the first release is incompatible and the
\* second one was returned.
C3_Witness ==
  /\ Succeeded
  /\ Requested = <<"v">>
  /\ CompatibleAt = {2}
  /\ Outcome.ver[1] = TheCatalog[2]
  /\ TheCatalog[1] # TheCatalog[2]

\* C4 as claimed: a non-empty requested version whose normalized form is the
\* version string of some compatible entry is answered with such an entry,
\* whatever else the catalog lists (same version string included).
C4_Original_AnyCompatibleMatch ==
  (Selected /\ Requested # <<>>
     /\ CarryingAt(normalizeVersion(Requested)) \cap CompatibleAt # {})
    => /\ Succeeded
       /\ \E i \in CarryingAt(normalizeVersion(Requested)) \cap CompatibleAt :
            Outcome.ver[1] = TheCatalog[i]

\* C4 amended: when the normalized requested version is non-empty and the
\* FIRST entry carrying it is compatible, selectVersion succeeds and returns
\* that first entry, whatever its position and whatever else is listed.
C4_ExactIsFirstMatch ==
  (Selected /\ normalizeVersion(Requested) # <<>>
     /\ CarryingAt(normalizeVersion(Requested)) # {}
     /\ Min(CarryingAt(normalizeVersion(Requested))) \in CompatibleAt)
    => /\ Succeeded
       /\ Outcome.ver[1] = TheCatalog[Min(CarryingAt(normalizeVersion(Requested)))]

\* C4 witness: the requested version is the second entry, behind a newer
\* compatible release, and was returned.
C4_Witness ==
  /\ Succeeded
  /\ normalizeVersion(Requested) # <<>>
  /\ CarryingAt(normalizeVersion(Requested)) = {2}
  /\ 1 \in CompatibleAt
  /\ Outcome.ver[1] = TheCatalog[2]

\* C5 as claimed: with a non-empty normalized version and a compatible
\* release present, the failure is ErrVersionNotFound iff no entry carries
\* the version, and ErrVersionUnsupported iff some entry carrying it is
\* incompatible.
C5_Original_SomeEntryIncompatible ==
  (Selected /\ normalizeVersion(Requested) # <<>> /\ CompatibleAt # {})
    => /\ FailedWith("ErrVersionNotFound")
            <=> CarryingAt(normalizeVersion(Requested)) = {}
       /\ FailedWith("ErrVersionUnsupported")
            <=> CarryingAt(normalizeVersion(Requested)) \ CompatibleAt # {}

\* C5 amended: with a non-empty normalized version and a compatible release
\* present, the failure is ErrVersionNotFound iff no entry carries the
\* version, and ErrVersionUnsupported iff the FIRST entry carrying it is
\* incompatible; the two kinds differ and selectVersion succeeds otherwise.
C5_ErrorKinds ==
  (Selected /\ normalizeVersion(Requested) # <<>> /\ CompatibleAt # {})
    => LET carrying == CarryingAt(normalizeVersion(Requested))
       IN  /\ FailedWith("ErrVersionNotFound") <=> carrying = {}
           /\ FailedWith("ErrVersionUnsupported")
                <=> (carrying # {} /\ Min(carrying) \notin CompatibleAt)
           /\ ~(FailedWith("ErrVersionNotFound") /\ FailedWith("ErrVersionUnsupported"))
           /\ Succeeded <=> (carrying # {} /\ Min(carrying) \in CompatibleAt)

\* C5 witness: the requested version exists, is incompatible, another
\* release is compatible, and the call failed as unsupported.
C5_Witness ==
  /\ FailedWith("ErrVersionUnsupported")
  /\ CompatibleAt # {}
  /\ CarryingAt(normalizeVersion(Requested)) # {}

SelectionFailedOnExactPath ==
  FailedWith("ErrVersionNotFound") \/ FailedWith("ErrVersionUnsupported")

StartsWithPrefixChar(s) == Len(s) >= 1 /\ s[1] \in {"v", "^"}
NoSpaces(s) == \A i \in 1..Len(s) : s[i] # " "
\* a version string with no spaces and no leading "v" or "^"
Plain(s) == NoSpaces(s) /\ ~StartsWithPrefixChar(s)

\* C7 as claimed: normalizeVersion(normalizeVersion(v)) = normalizeVersion(v)
\* for every input string.
C7_Original_Idempotent ==
  nTwice # <<>> => nTwice[1] = nOnce[1]

\* C7 amended: normalizeVersion removes every space (not only surrounding
\* ones) and then one leading "v" or "^", so "v"+s, "^"+s and s all give s
\* for a plain s; applying it again changes nothing exactly when the first
\* result does not itself begin with "v" or "^", and otherwise strips one
\* more character.
C7_NormalizeOnceMore ==
  /\ nOnce # <<>> =>
       /\ NoSpaces(nOnce[1])
       /\ \A s \in {nIn} \cup (IF nIn = <<>> THEN {} ELSE {Tail(nIn)}) :
            (Plain(s) /\ nIn \in {s, <<"v">> \o s, <<"^">> \o s}) => nOnce[1] = s
       /\ Len(nOnce[1]) \in {Len(ReplaceAllSpaces(nIn)), Len(ReplaceAllSpaces(nIn)) - 1}
  /\ nTwice # <<>> =>
       /\ ~StartsWithPrefixChar(nOnce[1]) => nTwice[1] = nOnce[1]
       /\ StartsWithPrefixChar(nOnce[1]) => nTwice[1] = Tail(nOnce[1])

\* C7 witness: "^1" was normalized to "1" and normalizing again kept "1".
C7_Witness ==
  /\ nIn = <<"^", "1">>
  /\ nOnce = <<<<"1">>>>
  /\ nTwice = <<<<"1">>>>

\* the checksum the claim describes for release v and constraints c
ClaimedChecksum(v, c) ==
  IF v.Arch.isNil THEN ""
  ELSE IF c.osAndArch \in DOMAIN v.Arch.m THEN v.Arch.m[c.osAndArch].SHA256
  ELSE IF "any" \in DOMAIN v.Arch.m THEN v.Arch.m["any"].SHA256
  ELSE ""

\* C8: the plan GetPluginDownloadOptions builds (and returns) has the
\* checksum of the selected release's entry under the exact arch key, else
\* of its "any" entry, else "", and "" without error for a nil map; for
\* {linux_amd64: sha1, any: sha2} and darwin_arm64 it is sha2.
C8_ChecksumResolution ==
  dlOpts # <<>> =>
    /\ Succeeded
    /\ dlOpts[1].Checksum = ClaimedChecksum(Outcome.ver[1], Constraints)
    /\ dlOpts[1].Version = Outcome.ver[1].Version
    /\ (/\ ~Outcome.ver[1].Arch.isNil
        /\ DOMAIN Outcome.ver[1].Arch.m = {"linux_amd64", "any"}
        /\ Constraints.osAndArch = "darwin_arm64") => dlOpts[1].Checksum = "sha2"
    /\ (op = "GetPluginDownloadOptions" /\ pc = "done")
         => ret = [val |-> dlOpts, err |-> <<>>]

\* C8 witness: GetPluginDownloadOptions returned a plan for darwin_arm64
\* from a release listing linux_amd64 and any, with the checksum of "any".
C8_Witness ==
  /\ op = "GetPluginDownloadOptions"
  /\ pc = "done"
  /\ dlOpts # <<>>
  /\ ret.val = dlOpts
  /\ DOMAIN Outcome.ver[1].Arch.m = {"linux_amd64", "any"}
  /\ Constraints.osAndArch = "darwin_arm64"
  /\ dlOpts[1].Checksum = "sha2"

DownloadsAsked == {i \in 1..Len(requests) : requests[i].kind = "download"}
MetadataAsked == {i \in 1..Len(requests) : requests[i].kind = "sendReq"}

\* C9: in a GetPluginArchive call the metadata request comes first and a
\* download is asked for only after the metadata was decoded and a version
\* selected, with exactly the plan's URL and checksum; when the fetch, the
\* decode or the selection fails the call returns that error, no archive,
\* and no download is ever asked for; otherwise it returns what the
\* download returned.
C9_ArchiveOrder ==
  op = "GetPluginArchive" =>
    /\ MetadataAsked \subseteq {1}
    /\ DownloadsAsked \subseteq {2}
    /\ DownloadsAsked # {} =>
         /\ MetadataAsked = {1}
         /\ plugin # <<>>
         /\ Succeeded
         /\ dlOpts # <<>>
         /\ dlOpts[1] = PluginDownloadOptions(baseURL, args.pluginID,
                                              Outcome.ver[1], Constraints)
         /\ requests[2].url = dlOpts[1].PluginZipURL
         /\ requests[2].checksum = dlOpts[1].Checksum
         /\ requests[2].compatOpts = Constraints
    /\ (pc \in {"download", "done"} /\ Succeeded) => DownloadsAsked = {2}
    /\ (pc = "done" /\ ~Succeeded) =>
         /\ DownloadsAsked = {}
         /\ ret.val = <<>>
         /\ ret.err # <<>>
         /\ Selected => ret.err = Outcome.err
         /\ (~Selected /\ MetadataAsked = {1})
              => ret.err[1].kind \in {"ErrSendReq", "json.SyntaxError"}
    /\ (pc = "done" /\ Succeeded) => ret \in DownloadOutcomes(requests[2])

\* C9 witness: GetPluginArchive fetched, selected, asked for the download
\* with a non-empty checksum and returned the archive.
C9_Witness ==
  /\ op = "GetPluginArchive"
  /\ pc = "done"
  /\ Len(requests) = 2
  /\ requests[2].checksum = "sha1"
  /\ ret.err = <<>>
  /\ ret.val # <<>>

\* C10: a GetPluginArchiveByURL call asks for exactly one download, of the
\* caller's URL with an empty checksum and the caller's constraints, asks
\* for no metadata and selects no version, and returns what the download
\* returned.
C10_ByURLOnlyDownloads ==
  op = "GetPluginArchiveByURL" =>
    /\ requests = <<[kind |-> "download", url |-> args.pluginZipURL,
                     checksum |-> "", compatOpts |-> Constraints]>>
    /\ plugin = <<>>
    /\ sel = <<>>
    /\ dlOpts = <<>>
    /\ pc = "done" => /\ ret \in DownloadOutcomes(requests[1])
                      /\ (ret.err # <<>> => ret.err[1].kind # "ErrChecksumMismatch")

\* C10 witness: GetPluginArchiveByURL returned the archive of the URL.
C10_Witness ==
  /\ op = "GetPluginArchiveByURL"
  /\ pc = "done"
  /\ ret.err = <<>>
  /\ ret.val = <<[archive |-> args.pluginZipURL]>>

\* C11: when no release of the catalog is compatible (an empty catalog
\* included), selectVersion fails with ErrSupportedVersionNotFound for every
\* requested version, empty or not, listed or not: never with
\* ErrVersionNotFound or ErrVersionUnsupported, and no release is returned.
C11_NoSupportedVersionFirst ==
  (Selected /\ CompatibleAt = {})
    => /\ FailedWith("ErrSupportedVersionNotFound")
       /\ Outcome.err = <<[kind |-> "ErrSupportedVersionNotFound",
                           PluginID |-> plugin[1].ID,
                           SystemInfo |-> Readable(Constraints)]>>
       /\ Outcome.ver = <<>>
       /\ ~FailedWith("ErrVersionNotFound")
       /\ ~FailedWith("ErrVersionUnsupported")
       /\ dlOpts = <<>>
       /\ (pc = "done" => ret = [val |-> <<>>, err |-> Outcome.err])

\* C11 witness: the requested version is listed, nothing listed is
\* compatible, and the call failed with ErrSupportedVersionNotFound.
C11_Witness ==
  /\ FailedWith("ErrSupportedVersionNotFound")
  /\ pc = "done"
  /\ normalizeVersion(Requested) # <<>>
  /\ CarryingAt(normalizeVersion(Requested)) # {}
  /\ CompatibleAt = {}

\* C12 as claimed: a GetPluginDownloadOptions call asks for exactly one
\* metadata request and never for a download, whatever its outcome.
C12_Original_AlwaysOneRequest ==
  op = "GetPluginDownloadOptions"
    => /\ Cardinality(MetadataAsked) = 1
       /\ DownloadsAsked = {}

\* C12 amended: a GetPluginDownloadOptions call never asks for a download
\* and asks for at most one metadata request: exactly one, to
\* {baseURL}/repo/{pluginID} with the call's constraints, when the Manager's
\* base URL parses, and none when it does not (the call then returns the
\* parse error at once). When the request fails the call returns that error
\* with no plan and no second request, and nothing is asked for after the
\* call has returned.
C12_OneRequestNoRetry ==
  op = "GetPluginDownloadOptions"
    => /\ DownloadsAsked = {}
       /\ ParseOK(baseURL)
            => requests = <<[kind |-> "sendReq",
                             url |-> <<baseURL, "repo", args.pluginID>>,
                             checksum |-> "", compatOpts |-> Constraints]>>
       /\ ~ParseOK(baseURL)
            => /\ requests = <<>>
               /\ pc = "done"
               /\ ret = [val |-> <<>>, err |-> <<[kind |-> "url.Error"]>>]
       /\ pc \in {"sendReq", "done"}
       /\ pc = "sendReq" => ret = <<>>
       /\ (pc = "done" /\ ~Selected) => (ret.val = <<>> /\ ret.err # <<>>)
       /\ (pc = "done" /\ ~Selected /\ plugin = <<>> /\ ParseOK(baseURL))
            => ret.err[1].kind \in {"ErrSendReq", "json.SyntaxError"}

\* C12 witness: the metadata request failed in transport and the call
\* returned that error after its single request.
C12_Witness ==
  /\ op = "GetPluginDownloadOptions"
  /\ pc = "done"
  /\ ret = [val |-> <<>>, err |-> <<[kind |-> "ErrSendReq"]>>]
  /\ Len(requests) = 1
  /\ requests[1].kind = "sendReq"
====
